---- MODULE Spec2Model ----
(***************************************************************************)
(* Progress tracking and certificate issuance of SpsSchool.                *)
(*                                                                         *)
(* The persistent store (tables user_progress, user_certificates,          *)
(* audit_logs and the is_active flag of videos) is the shared state.  A    *)
(* request is a process that runs one view; it is interleaved with other   *)
(* requests at its calls to the store.                                     *)
(*   update_video_progress   courses/views.py  324-359                     *)
(*   check_training_completion courses/views.py 572-600                    *)
(*   video_detail            core/views.py     300-360                     *)
(*   VideoAdmin (is_active)  courses/admin.py  54-71                       *)
(*   VideoDetailView.retrieve courses/views.py 230-279                     *)
(*   UserDetailView.delete   users/views.py    186-211                     *)
(* Spec interleaves two requests of one user and the admin; SeqSpec runs   *)
(* one request at a time, of any user.  FailSpec is SeqSpec with audit     *)
(* INSERTs that may fail, DeleteSpec is SeqSpec with the deletion of user  *)
(* accounts, PctSpec runs reports over a range of seconds and durations.   *)
(***************************************************************************)
EXTENDS Integers, Sequences, FiniteSets, TLC

\* ---------------------------------------------------------------- bounds
MaxRequests == 2
MaxAdminOps == 1

\* ------------------------------------------------------------- the catalog
Users == {"u1", "u2"}
Videos == {1, 2, 3}
Trainings == {1}
Procs == {1, 2}
Modules == {1}

\* Training.module: training 1 belongs to module 1
TrainingModule(t) == 1

\* a request without credentials: request.user is the AnonymousUser
Anonymous == "anon"

\* the video ids a request may name: 4 is the id of no video
VideoIds == Videos \cup {4}

\* Video.training: the three videos belong to training 1
VideoTraining(v) == 1

\* ------------------------------------------------------------ request data
NoSeconds == [kind |-> "omitted", val |-> 0]
NoFlag == [kind |-> "omitted", val |-> FALSE]
\* request bodies: {progress_seconds: 1, completed: true},
\* {progress_seconds: -1, completed: false}, {} and
\* {progress_seconds: "abc", completed: true}
Payloads ==
    {[progress_seconds |-> [kind |-> "int", val |-> 1], completed |-> [kind |-> "bool", val |-> TRUE]],
     [progress_seconds |-> [kind |-> "int", val |-> -1], completed |-> [kind |-> "bool", val |-> FALSE]],
     [progress_seconds |-> NoSeconds, completed |-> NoFlag],
     [progress_seconds |-> [kind |-> "str", val |-> 0], completed |-> [kind |-> "bool", val |-> TRUE]]}
NoData == [progress_seconds |-> NoSeconds, completed |-> NoFlag]

\* a NULL DateTimeField is the empty sequence, a set one is <<t>>
NULL == <<>>

\* a response body without progress_percentage
NoPercentage == [num |-> 0, den |-> 0]

\* a response body without the dashboard's statistics
NoStats ==
    [total_modules |-> 0, total_trainings |-> 0, total_videos |-> 0,
     completed_videos |-> 0, in_progress_videos |-> 0,
     certificates_earned |-> 0, overall_progress |-> NoPercentage]

NoRow ==
    [id |-> 0, user |-> "none", video |-> 0, progress_seconds |-> 0,
     completed |-> FALSE, completed_at |-> NULL]

Idle ==
    [kind |-> "none", user |-> "none", video |-> 0, data |-> NoData,
     instance |-> NoRow, created |-> FALSE, total_videos |-> 0,
     completed_videos |-> 0, cert_created |-> FALSE, status |-> 0,
     percentage |-> NoPercentage, target |-> "none", stats |-> NoStats,
     user_total_progress |-> NoPercentage]

VARIABLES
    is_active,      \* Video.is_active, per video
    progress,       \* table user_progress: a set of rows
    certs,          \* table user_certificates: a set of rows
    audit,          \* table audit_logs, in insertion order
    clock,          \* timezone.now()
    pc,             \* per request process: the next store call of its view
    loc,            \* per request process: the view's local variables
    started,        \* requests started so far
    admin_ops,      \* admin edits so far
    users,          \* table users: the accounts that exist
    duration_seconds,   \* Video.duration_seconds, per video
    training_is_active, \* Training.is_active, per training
    module_is_active    \* Module.is_active, per module

vars ==
    <<is_active, progress, certs, audit, clock, pc, loc, started, admin_ops,
      users, duration_seconds, training_is_active, module_is_active>>

\* the columns of the catalog that no request writes
Catalog == <<duration_seconds, training_is_active, module_is_active>>

\* ------------------------------------------------------------ the tables
\* UserProgress.objects.filter(user=u, video=v)
ProgressOf(u, v) == {r \in progress : r.user = u /\ r.video = v}

\* UserCertificate.objects.filter(user=u, training=t)
CertsOf(u, t) == {c \in certs : c.user = u /\ c.training = t}

\* the table without its unique constraint
NoProgressConstraint(u, v) == FALSE

\* unique_together = ['user', 'video'] of user_progress
ProgressUniqueViolation(u, v) == ProgressOf(u, v) # {}

\* the table without its unique constraint
NoCertConstraint(u, t) == FALSE

\* unique_together = ['user', 'training'] of user_certificates
CertUniqueViolation(u, t) == CertsOf(u, t) # {}

\* a new UserProgress row with the model's defaults and the next primary key
NewProgress(u, v) ==
    [id |-> Cardinality(progress) + 1, user |-> u, video |-> v,
     progress_seconds |-> 0, completed |-> FALSE, completed_at |-> NULL]

\* a new UserCertificate row: fresh code, issued_at = now
NewCert(u, t) ==
    [id |-> Cardinality(certs) + 1, user |-> u, training |-> t,
     certificate_code |-> Cardinality(certs) + 1, issued_at |-> clock]

\* permissions.IsAuthenticated: request.user is an account of the table
IsAuthenticated(u) == u \in users

\* the lookup without `is_active=True`
AnyVideoFound(v) == v \in Videos

\* get_object_or_404(Video, id=video_id, is_active=True)
ActiveVideoFound(v) == v \in Videos /\ is_active[v]

\* get_object_or_404(Video, id=video_id)
VideoFound(v) == v \in Videos

\* training.videos.filter(is_active=True)
ActiveVideos(t) == {v \in Videos : VideoTraining(v) = t /\ is_active[v]}

\* UserProgress.objects.filter(user=u, video__training=t, completed=True)
CompletedRows(u, t) ==
    {r \in progress : r.user = u /\ VideoTraining(r.video) = t /\ r.completed}

\* ------------------------------------------------------------ serializer
\* UserProgressUpdateSerializer.is_valid(), partial=True: progress_seconds is
\* the serializer field of a models.IntegerField (any integer of the column's
\* range, of either sign), completed that of a BooleanField
SecondsValid(s) == s.kind \in {"omitted", "int"}

FlagValid(c) == c.kind \in {"omitted", "bool"}

is_valid(data) == SecondsValid(data.progress_seconds) /\ FlagValid(data.completed)

\* update() that assigns the completed flag it is given, as the inherited
\* ModelSerializer.update would
update_assign(instance, validated_data, now) ==
    LET seconds == IF validated_data.progress_seconds.kind = "int"
                   THEN validated_data.progress_seconds.val
                   ELSE instance.progress_seconds
        given == validated_data.completed.kind = "bool"
        flag == given /\ validated_data.completed.val
        mark == flag /\ ~instance.completed
    IN  [instance EXCEPT !.progress_seconds = seconds,
                         !.completed = IF given THEN flag ELSE @,
                         !.completed_at = IF mark THEN <<now>>
                                          ELSE IF given /\ ~flag THEN NULL ELSE @]

\* update() that sets completed and forgets the timestamp
update_nostamp(instance, validated_data, now) ==
    LET seconds == IF validated_data.progress_seconds.kind = "int"
                   THEN validated_data.progress_seconds.val
                   ELSE instance.progress_seconds
        flag == IF validated_data.completed.kind = "bool"
                THEN validated_data.completed.val
                ELSE FALSE
        mark == flag /\ ~instance.completed
    IN  [instance EXCEPT !.progress_seconds = seconds,
                         !.completed = IF mark THEN TRUE ELSE @]

\* update() that never lowers progress_seconds
update_monotonic(instance, validated_data, now) ==
    LET given == IF validated_data.progress_seconds.kind = "int"
                 THEN validated_data.progress_seconds.val
                 ELSE instance.progress_seconds
        seconds == IF given > instance.progress_seconds
                   THEN given ELSE instance.progress_seconds
        flag == IF validated_data.completed.kind = "bool"
                THEN validated_data.completed.val
                ELSE FALSE
        mark == flag /\ ~instance.completed
    IN  [instance EXCEPT !.progress_seconds = seconds,
                         !.completed = IF mark THEN TRUE ELSE @,
                         !.completed_at = IF mark THEN <<now>> ELSE @]

\* UserProgressUpdateSerializer.update, up to instance.save()
update(instance, validated_data, now) ==
    LET seconds == IF validated_data.progress_seconds.kind = "int"
                   THEN validated_data.progress_seconds.val
                   ELSE instance.progress_seconds
        flag == IF validated_data.completed.kind = "bool"
                THEN validated_data.completed.val
                ELSE FALSE
        mark == flag /\ ~instance.completed
    IN  [instance EXCEPT !.progress_seconds = seconds,
                         !.completed = IF mark THEN TRUE ELSE @,
                         !.completed_at = IF mark THEN <<now>> ELSE @]

\* --------------------------------------------- UserProgress.progress_percentage
\* Python's true division of two ints, as a fraction num/den with den > 0
TrueDiv(a, b) ==
    IF b > 0 THEN [num |-> a, den |-> b] ELSE [num |-> -a, den |-> -b]

\* x * 100
Times100(x) == [num |-> x.num * 100, den |-> x.den]

\* min(x, 100): x unless 100 is smaller
Min100(x) == IF 100 * x.den < x.num THEN [num |-> 100, den |-> 1] ELSE x

\* the property without min(..., 100)
progress_percentage_unclamped(row) ==
    IF duration_seconds[row.video] = 0
    THEN [num |-> 0, den |-> 1]
    ELSE Times100(TrueDiv(row.progress_seconds, duration_seconds[row.video]))

\* UserProgress.progress_percentage
progress_percentage(row) ==
    IF duration_seconds[row.video] = 0
    THEN [num |-> 0, den |-> 1]
    ELSE Min100(Times100(TrueDiv(row.progress_seconds, duration_seconds[row.video])))

\* ------------------------------------------------ Training.get_user_progress
\* Training.total_videos
total_videos(t) == Cardinality(ActiveVideos(t))

\* Training.get_user_progress(user)
get_user_progress(t, u) ==
    IF total_videos(t) = 0
    THEN [num |-> 0, den |-> 1]
    ELSE Times100(TrueDiv(Cardinality(CompletedRows(u, t)), total_videos(t)))

\* ------------------------------------------------------------ dashboard_stats
\* the integer nearest to n / d (d > 0), ties to the even one
RoundHalfEven(n, d) ==
    LET q == n \div d
        r == n % d
    IN  IF 2 * r < d THEN q
        ELSE IF 2 * r > d THEN q + 1
        ELSE IF q % 2 = 0 THEN q ELSE q + 1

\* round(x, 2): the nearest multiple of 1/100
round2(x) == [num |-> RoundHalfEven(x.num * 100, x.den), den |-> 100]

\* dashboard_stats whose in-progress filter forgets `completed=False`
dashboard_stats_any_watched(u) ==
    LET total == Cardinality({v \in Videos :
                     /\ is_active[v]
                     /\ training_is_active[VideoTraining(v)]
                     /\ module_is_active[TrainingModule(VideoTraining(v))]})
        user_progress == {r \in progress : r.user = u}
        completed == Cardinality({r \in user_progress : r.completed})
    IN  [total_modules |-> Cardinality({m \in Modules : module_is_active[m]}),
         total_trainings |->
             Cardinality({t \in Trainings :
                 training_is_active[t] /\ module_is_active[TrainingModule(t)]}),
         total_videos |-> total,
         completed_videos |-> completed,
         in_progress_videos |->
             Cardinality({r \in user_progress : r.progress_seconds > 0}),
         certificates_earned |-> Cardinality({c \in certs : c.user = u}),
         overall_progress |->
             IF total > 0
             THEN round2(Times100(TrueDiv(completed, total)))
             ELSE round2([num |-> 0, den |-> 1])]

\* dashboard_stats, lines 529-567: the statistics of the response
dashboard_stats(u) ==
    LET total == Cardinality({v \in Videos :
                     /\ is_active[v]
                     /\ training_is_active[VideoTraining(v)]
                     /\ module_is_active[TrainingModule(VideoTraining(v))]})
        user_progress == {r \in progress : r.user = u}
        completed == Cardinality({r \in user_progress : r.completed})
    IN  [total_modules |-> Cardinality({m \in Modules : module_is_active[m]}),
         total_trainings |->
             Cardinality({t \in Trainings :
                 training_is_active[t] /\ module_is_active[TrainingModule(t)]}),
         total_videos |-> total,
         completed_videos |-> completed,
         in_progress_videos |->
             Cardinality({r \in user_progress :
                 ~r.completed /\ r.progress_seconds > 0}),
         certificates_earned |-> Cardinality({c \in certs : c.user = u}),
         overall_progress |->
             IF total > 0
             THEN round2(Times100(TrueDiv(completed, total)))
             ELSE round2([num |-> 0, den |-> 1])]

\* a save that replaces every row of the video, whoever owns it
SaveRowOfVideo(row) == {r \in progress : r.video # row.video} \cup {row}

\* Model.save() of an existing row: UPDATE of every field WHERE id = pk
SaveRow(row) == {r \in progress : r.id # row.id} \cup {row}

\* an INSERT that replaces the certificate the training already has
InsertCertPerTraining(row) == {c \in certs : c.training # row.training} \cup {row}

\* the INSERT of a UserCertificate row
InsertCert(row) == certs \cup {row}

\* the comparison without `total_videos > 0`
CompletionReachedNoGuard(total, completed) == completed = total

\* `total_videos > 0 and completed_videos == total_videos`
CompletionReached(total, completed) == total > 0 /\ completed = total

\* AuditLog.objects.create(...)
AuditEntry(u, action, model_name, object_id) ==
    [user |-> u, action |-> action, model_name |-> model_name,
     object_id |-> object_id]

\* ---------------------------------------------------------------- Init
Init ==
    /\ is_active \in [Videos -> BOOLEAN]     \* the catalog as the admin left it
    /\ progress = {}
    /\ certs = {}
    /\ audit = <<>>
    /\ clock = 1
    /\ pc = [p \in Procs |-> "idle"]
    /\ loc = [p \in Procs |-> Idle]
    /\ started = 0
    /\ admin_ops = 0
    /\ users = Users
    /\ duration_seconds = [v \in Videos |-> IF v = 2 THEN 0 ELSE 300]
    /\ training_is_active = [t \in Trainings |-> TRUE]
    /\ module_is_active = [m \in Modules |-> TRUE]

Store == <<is_active, progress, certs, audit, clock, users, Catalog>>
Goto(p, label) == pc' = [pc EXCEPT ![p] = label]
\* the response; line 357: UserProgressSerializer(progress).data, with its
\* read-only field progress_percentage, is the body of a report's 200
Respond(p, code, l) ==
    /\ pc' = [pc EXCEPT ![p] = "respond"]
    /\ loc' = [loc EXCEPT ![p] =
                   [l EXCEPT !.status = code,
                             !.percentage = IF code = 200 /\ l.kind = "report"
                                            THEN progress_percentage(l.instance)
                                            ELSE NoPercentage]]

\* ------------------------------------------- update_video_progress: entry
\* line 323: the permission check, which ends an unauthenticated request with
\* 401 before the view runs; line 328: the video lookup; a miss ends the
\* request with 404
StartReport(p, u, v, d) ==
    /\ pc[p] = "idle"
    /\ (p = 2 => pc[1] # "idle")     \* slot 2 serves a request that overlaps one
    /\ started < MaxRequests
    /\ started' = started + 1
    /\ LET l == [Idle EXCEPT !.kind = "report", !.user = u, !.video = v, !.data = d]
       IN  IF ~IsAuthenticated(u)
           THEN Respond(p, 401, l)
           ELSE IF ActiveVideoFound(v)
           THEN Goto(p, "get") /\ loc' = [loc EXCEPT ![p] = l]
           ELSE Respond(p, 404, l)
    /\ UNCHANGED <<Store, admin_ops>>

\* ---------------------------------------------------- video_detail: entry
\* line 302: the video lookup, active or not; lines 324-330 for a logged-in
\* user only, the page of an anonymous visitor reads no progress
StartView(p, u, v) ==
    /\ pc[p] = "idle"
    /\ (p = 2 => pc[1] # "idle")
    /\ started < MaxRequests
    /\ started' = started + 1
    /\ LET l == [Idle EXCEPT !.kind = "view", !.user = u, !.video = v]
       IN  IF ~VideoFound(v)
           THEN Respond(p, 404, l)
           ELSE IF IsAuthenticated(u)
           THEN Goto(p, "get") /\ loc' = [loc EXCEPT ![p] = l]
           ELSE Respond(p, 200, l)
    /\ UNCHANGED <<Store, admin_ops>>

\* ------------------------------------------------ VideoDetailView.retrieve
\* lines 230-236: authenticated users, active videos; lines 264-279: the
\* video is read and a VIEW event written
RetrieveVideo(p, u, v) ==
    /\ pc[p] = "idle"
    /\ started < MaxRequests
    /\ started' = started + 1
    /\ LET l == [Idle EXCEPT !.kind = "detail", !.user = u, !.video = v]
       IN  IF ~IsAuthenticated(u)
           THEN Respond(p, 401, l) /\ UNCHANGED audit
           ELSE IF ~ActiveVideoFound(v)
           THEN Respond(p, 404, l) /\ UNCHANGED audit
           ELSE /\ audit' = Append(audit, AuditEntry(u, "VIEW", "Video", v))
                /\ Respond(p, 200, l)
    /\ UNCHANGED <<is_active, progress, certs, clock, admin_ops, users, Catalog>>

\* ------------------------------------- UserProgress.objects.get_or_create
\* after get_or_create: the report goes on to the serializer, the page view
\* only reads
AfterGetOrCreate(p, l) ==
    IF l.kind = "report"
    THEN Goto(p, "save") /\ loc' = [loc EXCEPT ![p] = l]
    ELSE Respond(p, 200, l)

\* get_or_create, the SELECT
GetProgress(p) ==
    /\ pc[p] = "get"
    /\ LET rows == ProgressOf(loc[p].user, loc[p].video)
       IN  IF rows = {}
           THEN Goto(p, "create") /\ UNCHANGED loc
           ELSE IF Cardinality(rows) = 1
           THEN AfterGetOrCreate(p, [loc[p] EXCEPT !.instance = CHOOSE r \in rows : TRUE,
                                                   !.created = FALSE])
           ELSE Respond(p, 500, loc[p])       \* MultipleObjectsReturned
    /\ UNCHANGED <<Store, started, admin_ops>>

\* get_or_create, the INSERT with defaults={'progress_seconds': 0}
CreateProgress(p) ==
    /\ pc[p] = "create"
    /\ IF ProgressUniqueViolation(loc[p].user, loc[p].video)
       THEN /\ Goto(p, "reget")                \* IntegrityError is caught
            /\ UNCHANGED <<loc, progress>>
       ELSE LET row == NewProgress(loc[p].user, loc[p].video)
            IN  /\ progress' = progress \cup {row}
                /\ AfterGetOrCreate(p, [loc[p] EXCEPT !.instance = row, !.created = TRUE])
    /\ UNCHANGED <<is_active, certs, audit, clock, started, admin_ops, users, Catalog>>

\* get_or_create, the SELECT after a caught IntegrityError
RegetProgress(p) ==
    /\ pc[p] = "reget"
    /\ LET rows == ProgressOf(loc[p].user, loc[p].video)
       IN  IF Cardinality(rows) = 1
           THEN AfterGetOrCreate(p, [loc[p] EXCEPT !.instance = CHOOSE r \in rows : TRUE,
                                                   !.created = FALSE])
           ELSE Respond(p, 500, loc[p])
    /\ UNCHANGED <<Store, started, admin_ops>>

\* ------------------------------- update_video_progress: lines 337-339, 359
\* is_valid(); on success serializer.save() = update() and instance.save()
SaveProgress(p) ==
    /\ pc[p] = "save"
    /\ IF is_valid(loc[p].data)
       THEN LET row == update(loc[p].instance, loc[p].data, clock)
            IN  /\ progress' = SaveRow(row)
                /\ clock' = IF row.completed_at # loc[p].instance.completed_at
                            THEN clock + 1 ELSE clock
                /\ Goto(p, "audit")
                /\ loc' = [loc EXCEPT ![p].instance = row]
       ELSE /\ Respond(p, 400, loc[p])
            /\ UNCHANGED <<progress, clock>>
    /\ UNCHANGED <<is_active, certs, audit, started, admin_ops, users, Catalog>>

\* an event of kind UPDATE whatever the record
ProgressActionUpdate(instance) == "UPDATE"

\* line 342: action = 'COMPLETE' if progress.completed else 'UPDATE'
ProgressAction(instance) == IF instance.completed THEN "COMPLETE" ELSE "UPDATE"

\* the check run only when the report itself carries completed=true
CheckDueOnRequest(l) ==
    l.instance.completed /\ l.data.completed = [kind |-> "bool", val |-> TRUE]

\* line 354: if progress.completed, with progress the saved record
CheckDue(l) == l.instance.completed

\* lines 342-355: the audit row, then the completion check if completed
AuditProgress(p) ==
    /\ pc[p] = "audit"
    /\ audit' = Append(audit,
                       AuditEntry(loc[p].user, ProgressAction(loc[p].instance),
                                  "UserProgress", loc[p].instance.id))
    /\ IF CheckDue(loc[p])
       THEN Goto(p, "count_total") /\ UNCHANGED loc
       ELSE Respond(p, 200, loc[p])
    /\ UNCHANGED <<is_active, progress, certs, clock, started, admin_ops, users, Catalog>>

\* lines 343-351 when AuditLog.objects.create raises (the database refuses
\* the INSERT): nothing catches the exception, the request ends with 500
\* after the progress row was saved and before the completion check
AuditProgressFails(p) ==
    /\ pc[p] = "audit"
    /\ Respond(p, 500, loc[p])
    /\ UNCHANGED <<Store, started, admin_ops>>

\* ------------------------------------------------ check_training_completion
\* line 576
CountTotal(p) ==
    /\ pc[p] = "count_total"
    /\ loc' = [loc EXCEPT ![p].total_videos =
                   Cardinality(ActiveVideos(VideoTraining(loc[p].video)))]
    /\ Goto(p, "count_completed")
    /\ UNCHANGED <<Store, started, admin_ops>>

\* lines 577-584
CountCompleted(p) ==
    /\ pc[p] = "count_completed"
    /\ LET n == Cardinality(CompletedRows(loc[p].user, VideoTraining(loc[p].video)))
           l == [loc[p] EXCEPT !.completed_videos = n]
       IN  IF CompletionReached(l.total_videos, n)
           THEN Goto(p, "cert_get") /\ loc' = [loc EXCEPT ![p] = l]
           ELSE Respond(p, 200, l)
    /\ UNCHANGED <<Store, started, admin_ops>>

\* the audit row written whether or not the certificate is new
CertAuditAlways(created) == TRUE

\* line 590: `if created:`
CertAuditDue(created) == created

\* after get_or_create: the audit row of a new certificate, or the return
AfterCertGetOrCreate(p, l, created) ==
    IF CertAuditDue(created)
    THEN Goto(p, "cert_audit") /\ loc' = [loc EXCEPT ![p] = l]
    ELSE Respond(p, 200, l)

\* UserCertificate.objects.get_or_create, the SELECT
GetCert(p) ==
    /\ pc[p] = "cert_get"
    /\ LET rows == CertsOf(loc[p].user, VideoTraining(loc[p].video))
       IN  IF rows = {}
           THEN Goto(p, "cert_create") /\ UNCHANGED loc
           ELSE IF Cardinality(rows) = 1
           THEN AfterCertGetOrCreate(p, loc[p], FALSE)
           ELSE Respond(p, 500, loc[p])       \* MultipleObjectsReturned
    /\ UNCHANGED <<Store, started, admin_ops>>

\* UserCertificate.objects.get_or_create, the INSERT
CreateCert(p) ==
    /\ pc[p] = "cert_create"
    /\ IF CertUniqueViolation(loc[p].user, VideoTraining(loc[p].video))
       THEN /\ Goto(p, "cert_reget")           \* IntegrityError is caught
            /\ UNCHANGED <<loc, certs>>
       ELSE /\ certs' = InsertCert(NewCert(loc[p].user, VideoTraining(loc[p].video)))
            /\ AfterCertGetOrCreate(p, [loc[p] EXCEPT !.cert_created = TRUE], TRUE)
    /\ UNCHANGED <<is_active, progress, audit, clock, started, admin_ops, users, Catalog>>

\* UserCertificate.objects.get_or_create, the SELECT after the IntegrityError
RegetCert(p) ==
    /\ pc[p] = "cert_reget"
    /\ IF Cardinality(CertsOf(loc[p].user, VideoTraining(loc[p].video))) = 1
       THEN AfterCertGetOrCreate(p, loc[p], FALSE)
       ELSE Respond(p, 500, loc[p])
    /\ UNCHANGED <<Store, started, admin_ops>>

\* lines 590-600: the audit row of a new certificate
AuditCert(p) ==
    /\ pc[p] = "cert_audit"
    /\ LET c == CHOOSE c \in CertsOf(loc[p].user, VideoTraining(loc[p].video)) : TRUE
       IN  audit' = Append(audit, AuditEntry(loc[p].user, "CREATE", "UserCertificate", c.id))
    /\ Respond(p, 200, loc[p])
    /\ UNCHANGED <<is_active, progress, certs, clock, started, admin_ops, users, Catalog>>

\* lines 592-600 when AuditLog.objects.create raises: the exception leaves
\* check_training_completion and the view, the certificate stays
AuditCertFails(p) ==
    /\ pc[p] = "cert_audit"
    /\ Respond(p, 500, loc[p])
    /\ UNCHANGED <<Store, started, admin_ops>>

\* ------------------------------------------------------------ dashboard_stats
\* lines 520-570: authenticated users; the view only reads
DashboardStats(p, u) ==
    /\ pc[p] = "idle"
    /\ pc' = [pc EXCEPT ![p] = "respond"]
    /\ LET l == [Idle EXCEPT !.kind = "dashboard", !.user = u]
       IN  loc' = [loc EXCEPT ![p] =
                      IF IsAuthenticated(u)
                      THEN [l EXCEPT !.status = 200, !.stats = dashboard_stats(u)]
                      ELSE [l EXCEPT !.status = 401]]
    /\ UNCHANGED <<Store, started, admin_ops>>

\* ------------------------------------------------------------ core.views.home
\* x + y
FracAdd(x, y) == [num |-> x.num * y.den + y.num * x.den, den |-> x.den * y.den]

\* lines 29-35: total_progress, the sum over the rows whose video has a
\* positive duration of min(progress_seconds / duration_seconds * 100, 100)
RECURSIVE total_progress(_)
total_progress(rows) ==
    IF rows = {}
    THEN [num |-> 0, den |-> 1]
    ELSE LET r == CHOOSE x \in rows : TRUE
             percentage ==
                 Min100(Times100(TrueDiv(r.progress_seconds,
                                         duration_seconds[r.video])))
         IN  FracAdd(percentage, total_progress(rows \ {r}))

\* lines 26-37: avg_progress of the user's rows
avg_progress(u) ==
    LET counted == {r \in progress :
                       r.user = u /\ duration_seconds[r.video] > 0}
        sum == total_progress(counted)
    IN  IF Cardinality(counted) > 0
        THEN [num |-> sum.num, den |-> sum.den * Cardinality(counted)]
        ELSE [num |-> 0, den |-> 1]

\* lines 16-71: the home page; a logged-in user gets the statistics
Home(p, u) ==
    /\ pc[p] = "idle"
    /\ pc' = [pc EXCEPT ![p] = "respond"]
    /\ LET l == [Idle EXCEPT !.kind = "home", !.user = u, !.status = 200]
       IN  loc' = [loc EXCEPT ![p] =
                      IF IsAuthenticated(u)
                      THEN [l EXCEPT !.user_total_progress = avg_progress(u)]
                      ELSE l]
    /\ UNCHANGED <<Store, started, admin_ops>>

\* --------------------------------- ModuleDetailView, TrainingDetailView
\* lines 108-158: authenticated users, active modules; a VIEW event
RetrieveModule(p, u, m) ==
    /\ pc[p] = "idle"
    /\ started < MaxRequests
    /\ started' = started + 1
    /\ LET l == [Idle EXCEPT !.kind = "module", !.user = u, !.target = m]
       IN  IF ~IsAuthenticated(u)
           THEN Respond(p, 401, l) /\ UNCHANGED audit
           ELSE IF ~(m \in Modules /\ module_is_active[m])
           THEN Respond(p, 404, l) /\ UNCHANGED audit
           ELSE /\ audit' = Append(audit, AuditEntry(u, "VIEW", "Module", m))
                /\ Respond(p, 200, l)
    /\ UNCHANGED <<is_active, progress, certs, clock, admin_ops, users, Catalog>>

\* lines 168-220: authenticated users, active trainings; a VIEW event
RetrieveTraining(p, u, t) ==
    /\ pc[p] = "idle"
    /\ started < MaxRequests
    /\ started' = started + 1
    /\ LET l == [Idle EXCEPT !.kind = "training", !.user = u, !.target = t]
       IN  IF ~IsAuthenticated(u)
           THEN Respond(p, 401, l) /\ UNCHANGED audit
           ELSE IF ~(t \in Trainings /\ training_is_active[t])
           THEN Respond(p, 404, l) /\ UNCHANGED audit
           ELSE /\ audit' = Append(audit, AuditEntry(u, "VIEW", "Training", t))
                /\ Respond(p, 200, l)
    /\ UNCHANGED <<is_active, progress, certs, clock, admin_ops, users, Catalog>>

\* ---------------------------------------------------- UserDetailView.delete
\* User.role: the accounts are those of employees (the default role)
role(u) == "employee"

\* `self.request.user.is_admin` in get_object: is_admin is a method of User
\* and is not called, so the expression is the bound method, which is true
is_admin(u) == TRUE

\* AuditLog.user after on_delete=models.SET_NULL
NullUser == "null"

\* users/views.py 186-211 and DestroyModelMixin: get_object, then
\* instance.delete(), which deletes the user's progress rows and
\* certificates (on_delete=CASCADE) and sets the user of the user's audit
\* rows to NULL (on_delete=SET_NULL); no audit row is written
DeleteUser(p, actor, target) ==
    /\ pc[p] = "idle"
    /\ started < MaxRequests
    /\ started' = started + 1
    /\ LET l == [Idle EXCEPT !.kind = "delete", !.user = actor, !.target = target]
       IN  IF ~IsAuthenticated(actor)
           THEN Respond(p, 401, l) /\ UNCHANGED <<users, progress, certs, audit>>
           ELSE IF target \notin users
           THEN Respond(p, 404, l) /\ UNCHANGED <<users, progress, certs, audit>>
           ELSE IF ~is_admin(actor) /\ target # actor
           THEN Respond(p, 403, l) /\ UNCHANGED <<users, progress, certs, audit>>
           ELSE /\ users' = users \ {target}
                /\ progress' = {r \in progress : r.user # target}
                /\ certs' = {c \in certs : c.user # target}
                /\ audit' = [i \in 1..Len(audit) |->
                                IF audit[i].user = target
                                THEN [audit[i] EXCEPT !.user = NullUser]
                                ELSE audit[i]]
                /\ Respond(p, 204, l)
    /\ UNCHANGED <<is_active, clock, admin_ops, Catalog>>

\* the response is sent: the request is over
Return(p) ==
    /\ pc[p] = "respond"
    /\ Goto(p, "idle")
    /\ loc' = [loc EXCEPT ![p] = Idle]
    /\ UNCHANGED <<Store, started, admin_ops>>

\* ------------------------------------------------------------------ admin
\* VideoAdmin: an administrator edits is_active of a video
AdminSetActive(v, b) ==
    /\ admin_ops < MaxAdminOps
    /\ is_active[v] # b
    /\ is_active' = [is_active EXCEPT ![v] = b]
    /\ admin_ops' = admin_ops + 1
    /\ UNCHANGED <<progress, certs, audit, clock, pc, loc, started, users, Catalog>>

\* TrainingAdmin: an administrator edits is_active of a training
AdminSetTrainingActive(t, b) ==
    /\ admin_ops < MaxAdminOps
    /\ training_is_active[t] # b
    /\ training_is_active' = [training_is_active EXCEPT ![t] = b]
    /\ admin_ops' = admin_ops + 1
    /\ UNCHANGED <<is_active, progress, certs, audit, clock, pc, loc, started,
                   users, duration_seconds, module_is_active>>

\* ModuleAdmin: an administrator edits is_active of a module
AdminSetModuleActive(m, b) ==
    /\ admin_ops < MaxAdminOps
    /\ module_is_active[m] # b
    /\ module_is_active' = [module_is_active EXCEPT ![m] = b]
    /\ admin_ops' = admin_ops + 1
    /\ UNCHANGED <<is_active, progress, certs, audit, clock, pc, loc, started,
                   users, duration_seconds, training_is_active>>

\* ------------------------------------------------------------------- Next
\* Overlapping requests: those of one user, the first for video 1 and the one
\* that overlaps it for video 1 or 2, with a body that completes the video or
\* one that does not.  Every query of the views filters by the request's
\* user, so requests of different users meet in no row; SeqSpec below draws
\* from all users, videos and bodies.
RaceUsers == {"u1"}
RaceVideos(p) == IF p = 1 THEN {1} ELSE {1, 2}
RacePayloads == {d \in Payloads : d.progress_seconds.kind = "int"}

Next ==
    \/ \E p \in Procs : \E u \in RaceUsers, v \in RaceVideos(p), d \in RacePayloads :
           StartReport(p, u, v, d)
    \/ \E p \in Procs : \E u \in RaceUsers, v \in RaceVideos(p) : StartView(p, u, v)
    \/ \E p \in Procs : GetProgress(p)
    \/ \E p \in Procs : CreateProgress(p)
    \/ \E p \in Procs : RegetProgress(p)
    \/ \E p \in Procs : SaveProgress(p)
    \/ \E p \in Procs : AuditProgress(p)
    \/ \E p \in Procs : CountTotal(p)
    \/ \E p \in Procs : CountCompleted(p)
    \/ \E p \in Procs : GetCert(p)
    \/ \E p \in Procs : CreateCert(p)
    \/ \E p \in Procs : RegetCert(p)
    \/ \E p \in Procs : AuditCert(p)
    \/ \E p \in Procs : Return(p)
    \/ \E v \in Videos, b \in BOOLEAN : AdminSetActive(v, b)

Spec == Init /\ [][Next]_vars

\* One request at a time, each run to its response before the next starts;
\* the admin edits between requests.  Requests come from every user, for
\* every video id, and without credentials for video 1 (the permission
\* check precedes the lookup of the video); detail views ask for video 3 or
\* for the id of no video.
SeqRequests == (Users \X VideoIds) \cup {<<Anonymous, 1>>}
SeqDetailRequests == (Users \X {3, 4}) \cup {<<Anonymous, 3>>}

SeqNext ==
    \/ \E r \in SeqRequests, d \in Payloads :
           (r[1] = Anonymous => d = NoData) /\ StartReport(1, r[1], r[2], d)
    \/ \E r \in SeqRequests : StartView(1, r[1], r[2])
    \/ \E r \in SeqDetailRequests : RetrieveVideo(1, r[1], r[2])
    \/ GetProgress(1)
    \/ CreateProgress(1)
    \/ SaveProgress(1)
    \/ AuditProgress(1)
    \/ CountTotal(1)
    \/ CountCompleted(1)
    \/ GetCert(1)
    \/ CreateCert(1)
    \/ AuditCert(1)
    \/ Return(1)
    \/ \E v \in Videos, b \in BOOLEAN : pc[1] = "idle" /\ AdminSetActive(v, b)

SeqSpec == Init /\ [][SeqNext]_vars

\* One request at a time, with a database that may refuse an audit INSERT.
FailNext ==
    \/ SeqNext
    \/ AuditProgressFails(1)
    \/ AuditCertFails(1)

FailSpec == Init /\ [][FailNext]_vars

\* One request at a time, among them the deletion of a user account.
DeleteNext ==
    \/ SeqNext
    \/ \E actor \in Users \cup {Anonymous}, target \in Users :
           DeleteUser(1, actor, target)

DeleteSpec == Init /\ [][DeleteNext]_vars

\* The dashboard and the detail endpoints, one request at a time: reports of
\* u1 that complete a video, leave it partly watched or send -1; retrievals
\* of module, training and video 1 and of the id 2 of no module or training
\* and 4 of no video; the dashboard of u1; the admin edits is_active of
\* videos, trainings and modules between requests.
DashPayloads ==
    {[progress_seconds |-> [kind |-> "int", val |-> 1], completed |-> [kind |-> "bool", val |-> TRUE]],
     [progress_seconds |-> [kind |-> "int", val |-> 1], completed |-> [kind |-> "bool", val |-> FALSE]],
     [progress_seconds |-> [kind |-> "int", val |-> -1], completed |-> [kind |-> "bool", val |-> FALSE]]}

DashNext ==
    \/ \E v \in Videos, d \in DashPayloads : StartReport(1, "u1", v, d)
    \/ \E u \in {"u1", Anonymous} : DashboardStats(1, u)
    \/ \E u \in {"u1", Anonymous} : Home(1, u)
    \/ \E u \in {"u1", Anonymous}, m \in {1, 2} : RetrieveModule(1, u, m)
    \/ \E u \in {"u1", Anonymous}, t \in {1, 2} : RetrieveTraining(1, u, t)
    \/ \E u \in {"u1", Anonymous}, v \in {1, 4} : RetrieveVideo(1, u, v)
    \/ GetProgress(1)
    \/ CreateProgress(1)
    \/ SaveProgress(1)
    \/ AuditProgress(1)
    \/ CountTotal(1)
    \/ CountCompleted(1)
    \/ GetCert(1)
    \/ CreateCert(1)
    \/ AuditCert(1)
    \/ Return(1)
    \/ \E v \in Videos, b \in BOOLEAN : pc[1] = "idle" /\ AdminSetActive(v, b)
    \/ \E t \in Trainings, b \in BOOLEAN : pc[1] = "idle" /\ AdminSetTrainingActive(t, b)
    \/ \E m \in Modules, b \in BOOLEAN : pc[1] = "idle" /\ AdminSetModuleActive(m, b)

DashSpec == Init /\ [][DashNext]_vars

\* progress_percentage over its inputs: reports of one user for video 1,
\* whose duration_seconds is any of PctDurations, with progress_seconds any
\* of PctSeconds and no completed flag.
PctSeconds == {-450, -1, 0, 1, 150, 299, 300, 301, 450}
PctDurations == {-300, 0, 1, 300}
PctPayloads ==
    {[progress_seconds |-> [kind |-> "int", val |-> s], completed |-> NoFlag] :
        s \in PctSeconds}

PctInit ==
    /\ is_active = [v \in Videos |-> TRUE]
    /\ progress = {}
    /\ certs = {}
    /\ audit = <<>>
    /\ clock = 1
    /\ pc = [p \in Procs |-> "idle"]
    /\ loc = [p \in Procs |-> Idle]
    /\ started = 0
    /\ admin_ops = 0
    /\ users = Users
    /\ duration_seconds \in
           {[v \in Videos |-> IF v = 1 THEN d ELSE 300] : d \in PctDurations}
    /\ training_is_active = [t \in Trainings |-> TRUE]
    /\ module_is_active = [m \in Modules |-> TRUE]

PctNext ==
    \/ \E d \in PctPayloads : StartReport(1, "u1", 1, d)
    \/ GetProgress(1)
    \/ CreateProgress(1)
    \/ SaveProgress(1)
    \/ AuditProgress(1)
    \/ Return(1)

PctSpec == PctInit /\ [][PctNext]_vars

\* ================================================================ claims
\* the user's completed flag for every active video of training t
AllActiveCompleted(u, t) ==
    \A v \in ActiveVideos(t) : \E r \in progress : r.user = u /\ r.video = v /\ r.completed

\* C1: in every reachable state there is at most one progress row per
\* (user, video) pair, under any interleaving of reports and page views.
C1_OneRecordPerPair ==
    \A r1, r2 \in progress : (r1.user = r2.user /\ r1.video = r2.video) => r1 = r2

\* a report and a page view raced to create the row of one pair, and the
\* loser's INSERT was refused
C1_Witness ==
    \E p, q \in Procs :
        /\ pc[p] = "reget"
        /\ loc[q].created
        /\ loc[p].kind # loc[q].kind
        /\ loc[q].user = loc[p].user /\ loc[q].video = loc[p].video
        /\ Cardinality(ProgressOf(loc[p].user, loc[p].video)) = 1

\* C2: in every reachable state there is at most one certificate per
\* (user, training), and no request ends in a server error (500), also
\* when two completion checks both find the training complete.
C2_OneCertPerPair ==
    /\ \A c1, c2 \in certs : (c1.user = c2.user /\ c1.training = c2.training) => c1 = c2
    /\ \A p \in Procs : pc[p] = "respond" => loc[p].status # 500

\* two checks both found the training complete; one created the certificate,
\* the INSERT of the other was refused
C2_Witness ==
    \E p, q \in Procs :
        /\ pc[p] = "cert_reget"
        /\ loc[q].cert_created
        /\ loc[q].user = loc[p].user
        /\ Cardinality(CertsOf(loc[p].user, VideoTraining(loc[p].video))) = 1

\* C3: a certificate is created for (user, training) only if, at that
\* moment, the user has a completed progress row for every active video of
\* the training.
C3_CertOnlyWhenAllActiveCompleted ==
    [][\A c \in certs' \ certs : AllActiveCompleted(c.user, c.training)]_vars

\* C4: when a successful report returns and the user has completed rows for
\* all active videos (at least one) of the video's training, the
\* certificate of (user, training) exists.
C4_CertWhenAllActiveCompleted ==
    \A p \in Procs :
        (/\ pc[p] = "respond"
         /\ loc[p].kind = "report"
         /\ loc[p].status = 200
         /\ ActiveVideos(VideoTraining(loc[p].video)) # {}
         /\ AllActiveCompleted(loc[p].user, VideoTraining(loc[p].video)))
        => CertsOf(loc[p].user, VideoTraining(loc[p].video)) # {}

\* C5: with one request at a time, a row that is completed stays completed
\* and keeps its completed_at in every later step, whatever flag a later
\* report carries.
C5_CompletedIsOneWay ==
    [][\A r \in progress : r.completed =>
          \E r2 \in progress' :
              r2.id = r.id /\ r2.completed /\ r2.completed_at = r.completed_at]_vars

\* a report carrying completed=false has been saved on a completed row
C5_Witness ==
    /\ pc[1] = "audit"
    /\ loc[1].data.completed = [kind |-> "bool", val |-> FALSE]
    /\ loc[1].instance.completed
    /\ loc[1].instance \in progress

\* C6: with two reports for one pair interleaved at the store calls, a row
\* stored with completed=true is never afterwards stored with
\* completed=false, and its completed_at is never stamped again.
C6_ConcurrentCompletedIsOneWay ==
    [][\A r \in progress, r2 \in progress' :
          (r2.id = r.id /\ r.completed) =>
              (r2.completed /\ r2.completed_at = r.completed_at)]_vars

\* C7: every progress row has completed_at set exactly when completed is true.
C7_CompletedAtIffCompleted ==
    \A r \in progress : (r.completed_at # NULL) <=> r.completed

\* a report has just marked a row completed, and another row is not completed
C7_Witness ==
    \E p \in Procs, r \in progress :
        /\ pc[p] = "audit"
        /\ loc[p].instance \in progress
        /\ loc[p].instance.completed /\ loc[p].instance.completed_at # NULL
        /\ ~r.completed /\ r.completed_at = NULL

C9_RejectedReportLeavesNoRecord ==
    \A p \in Procs :
        (pc[p] = "respond" /\ loc[p].kind = "report" /\ loc[p].status = 400)
        => (~loc[p].created /\ loc[p].instance \in progress)

\* C10: a report with negative progress_seconds is answered 400, and every
\* stored row has progress_seconds >= 0.
C10_NoNegativeSeconds ==
    /\ \A r \in progress : r.progress_seconds >= 0
    /\ \A p \in Procs :
           (/\ pc[p] = "respond" /\ loc[p].kind = "report"
            /\ loc[p].status # 404
            /\ loc[p].data.progress_seconds.kind = "int"
            /\ loc[p].data.progress_seconds.val < 0)
           => loc[p].status = 400

\* C11: a report that is unauthenticated, or that names a video that does not
\* exist or is inactive, goes straight to a rejection (401/403 without
\* credentials, 404 for the video) and its step leaves the progress rows,
\* the certificates and the audit log as they were.
C11_RejectedReportHasNoEffect ==
    [][\A p \in Procs :
          (/\ pc[p] = "idle" /\ pc'[p] # "idle"
           /\ loc'[p].kind = "report"
           /\ \/ loc'[p].user \notin users
              \/ loc'[p].video \notin Videos
              \/ ~is_active[loc'[p].video])
          => (/\ pc'[p] = "respond"
              /\ loc'[p].status \in {401, 403, 404}
              /\ loc'[p].user \in users => loc'[p].status = 404
              /\ progress' = progress /\ certs' = certs /\ audit' = audit)]_vars

\* a report for a video that was deactivated after the user's row for it was
\* written is answered 404
C11_Witness ==
    /\ pc[1] = "respond"
    /\ loc[1].kind = "report" /\ loc[1].status = 404
    /\ loc[1].video \in Videos /\ ~is_active[loc[1].video]
    /\ ProgressOf(loc[1].user, loc[1].video) # {}
    /\ audit # <<>>

\* C12: a report whose progress row was saved is answered 200 with the row,
\* also when the write of its audit row fails.
C12_AuditFailureNotPropagated ==
    \A p \in Procs :
        (/\ pc[p] = "respond" /\ loc[p].kind = "report"
         /\ loc[p].instance # NoRow
         /\ is_valid(loc[p].data))
        => loc[p].status = 200

\* C13: when a report that saved a completed row returns, and the user's
\* completed rows match the training's active videos, the certificate
\* exists, whether or not the audit writes of the report succeeded.
C13_CertificateDespiteAuditFailure ==
    \A p \in Procs :
        (/\ pc[p] = "respond" /\ loc[p].kind = "report"
         /\ loc[p].instance # NoRow /\ is_valid(loc[p].data)
         /\ loc[p].instance.completed
         /\ CompletionReached(
                Cardinality(ActiveVideos(VideoTraining(loc[p].video))),
                Cardinality(CompletedRows(loc[p].user, VideoTraining(loc[p].video)))))
        => CertsOf(loc[p].user, VideoTraining(loc[p].video)) # {}

\* C14: for every stored progress row, progress_percentage is at least 0 and
\* at most 100.
C14_PercentageInRange ==
    \A r \in progress :
        LET x == progress_percentage(r)
        IN  0 <= x.num /\ x.num <= 100 * x.den

\* C15: the progress_percentage of a report's response is 0 when the video's
\* duration_seconds is 0; otherwise it is 100 when progress_seconds /
\* duration_seconds is at least 1 and progress_seconds / duration_seconds x
\* 100 when it is less; 150 of 300 gives 50 and 300 of 300 gives 100.
C15_PercentageFormula ==
    \A p \in Procs :
        (pc[p] = "respond" /\ loc[p].kind = "report" /\ loc[p].status = 200)
        => LET ws == loc[p].instance.progress_seconds
               d == duration_seconds[loc[p].video]
               x == loc[p].percentage
               full == (d > 0 /\ ws >= d) \/ (d < 0 /\ ws <= d)
           IN  /\ x.den > 0
               /\ d = 0 => x.num = 0
               /\ (d # 0 /\ full) => x.num = 100 * x.den
               /\ (d # 0 /\ ~full) => x.num * d = 100 * ws * x.den
               /\ (ws = 150 /\ d = 300) => x.num = 50 * x.den
               /\ (ws = 300 /\ d = 300) => x.num = 100 * x.den

\* a response for 150 watched seconds of a video of 300 carries 50, after a
\* report that had stored 450 seconds
C15_Witness ==
    /\ pc[1] = "respond" /\ loc[1].kind = "report" /\ loc[1].status = 200
    /\ loc[1].instance.progress_seconds = 150
    /\ duration_seconds[loc[1].video] = 300
    /\ loc[1].percentage.num = 50 * loc[1].percentage.den
    /\ started = 2

\* C16: for every user and training, get_user_progress is 0 when the
\* training has no active video, and otherwise 100 x (active videos of the
\* training the user has completed) / (active videos of the training), a
\* value from 0 to 100.
C16_TrainingProgressFormula ==
    \A u \in Users, t \in Trainings :
        LET x == get_user_progress(t, u)
            total == Cardinality(ActiveVideos(t))
            done == Cardinality({v \in ActiveVideos(t) :
                                    \E r \in progress :
                                        r.user = u /\ r.video = v /\ r.completed})
        IN  /\ total = 0 => x.num = 0
            /\ total > 0 => x.num * total = 100 * done * x.den
            /\ 0 <= x.num /\ x.num <= 100 * x.den

\* the audit events of kind CREATE for UserCertificate
CertificateEvents ==
    {i \in 1..Len(audit) :
        audit[i].action = "CREATE" /\ audit[i].model_name = "UserCertificate"}

\* C17: the CREATE events for UserCertificate are exactly one per
\* certificate created, written by the check that created it: their number
\* plus the checks that created a certificate and have not yet written its
\* event equals the number of certificates, so it never exceeds it; a check
\* that finds the certificate existing, or the training incomplete, adds none.
C17_CertificateEventPerNewCertificate ==
    /\ Cardinality(CertificateEvents)
           + Cardinality({p \in Procs : pc[p] = "cert_audit" /\ loc[p].cert_created})
       = Cardinality(certs)
    /\ Cardinality(CertificateEvents) <= Cardinality(certs)

\* one check created the certificate and wrote its event; an overlapping
\* check that also found the training complete met the certificate and
\* returned without an event
C17_Witness ==
    \E p, q \in Procs :
        /\ p # q
        /\ pc[p] = "respond" /\ loc[p].status = 200
        /\ loc[p].total_videos > 0 /\ loc[p].completed_videos = loc[p].total_videos
        /\ ~loc[p].cert_created
        /\ loc[q].cert_created /\ pc[q] = "respond"
        /\ Cardinality(certs) = 1 /\ Cardinality(CertificateEvents) = 1

\* C18: the save of a valid report stores the progress_seconds the report
\* carries, whether above or below the stored value, and stores the value
\* the row had when the report carries none.
C18_SecondsLastWriteWins ==
    [][\A p \in Procs :
          (pc[p] = "save" /\ pc'[p] = "audit")
          => LET old == CHOOSE r \in progress : r.id = loc[p].instance.id
                 new == CHOOSE r \in progress' : r.id = loc[p].instance.id
                 sent == loc[p].data.progress_seconds
             IN  new.progress_seconds =
                     IF sent.kind = "int" THEN sent.val ELSE old.progress_seconds]_vars

\* a report carrying -1 has been saved on a row that a completing report
\* had left at 1
C18_Witness ==
    /\ pc[1] = "audit"
    /\ loc[1].instance \in progress
    /\ loc[1].instance.completed
    /\ loc[1].data.progress_seconds = [kind |-> "int", val |-> -1]
    /\ loc[1].instance.progress_seconds = -1

\* C19: every step of a progress report, a completion check, a detail view,
\* a page view or an edit of the catalog keeps every existing certificate
\* as it is, with its user, training, code and issued_at.
C19_CertificatesImmutable ==
    [][\A c \in certs : c \in certs']_vars

\* a certificate exists while the training has an active video its holder
\* has not completed, after the catalog was edited, and another user holds
\* a certificate too
C19_Witness ==
    \E c \in certs :
        /\ admin_ops > 0
        /\ ~AllActiveCompleted(c.user, c.training)
        /\ Cardinality(certs) = 2

\* C20: every step keeps every existing audit event, at its place and with
\* all its fields, and only appends; also the deletion of the user who
\* acted.
C20_AuditAppendOnly ==
    [][/\ Len(audit') >= Len(audit)
       /\ \A i \in 1..Len(audit) : audit'[i] = audit[i]]_vars

\* C21: a request to UserDetailView by a user who is not an administrator,
\* for the record of another user, is denied (403) and leaves the accounts,
\* the progress rows, the certificates and the audit log as they were.
C21_OnlyOwnUserRecord ==
    [][\A p \in Procs :
          (/\ pc[p] = "idle" /\ pc'[p] = "respond"
           /\ loc'[p].kind = "delete"
           /\ loc'[p].user \in users
           /\ role(loc'[p].user) # "admin"
           /\ loc'[p].target \in users
           /\ loc'[p].target # loc'[p].user)
          => (/\ loc'[p].status = 403
              /\ users' = users /\ progress' = progress
              /\ certs' = certs /\ audit' = audit)]_vars

\* C22: the dashboard of a user reports as completed the number of the
\* user's rows with completed=true, as in progress the number of the user's
\* rows with progress_seconds > 0 that are not completed (no row counts in
\* both), and as overall percentage exactly completed / total x 100, and 0
\* when total is 0.
C22_DashboardFormula ==
    \A p \in Procs :
        (pc[p] = "respond" /\ loc[p].kind = "dashboard" /\ loc[p].status = 200)
        => LET s == loc[p].stats
               rows == {r \in progress : r.user = loc[p].user}
               done == {r \in rows : r.completed}
               watching == {r \in rows \ done : r.progress_seconds > 0}
           IN  /\ s.completed_videos = Cardinality(done)
               /\ s.in_progress_videos = Cardinality(watching)
               /\ s.completed_videos + s.in_progress_videos <= Cardinality(rows)
               /\ s.total_videos = 0 => s.overall_progress.num = 0
               /\ s.total_videos > 0 =>
                      s.overall_progress.num * s.total_videos
                          = 100 * s.completed_videos * s.overall_progress.den

\* C22, amended: as C22, with the overall percentage being completed / total
\* x 100 rounded to two decimal places: the multiple of 1/100 nearest to it.
C22_DashboardFormulaRounded ==
    \A p \in Procs :
        (pc[p] = "respond" /\ loc[p].kind = "dashboard" /\ loc[p].status = 200)
        => LET s == loc[p].stats
               rows == {r \in progress : r.user = loc[p].user}
               done == {r \in rows : r.completed}
               watching == {r \in rows \ done : r.progress_seconds > 0}
               x == s.overall_progress
               diff == x.num * s.total_videos - 10000 * s.completed_videos
           IN  /\ s.completed_videos = Cardinality(done)
               /\ s.in_progress_videos = Cardinality(watching)
               /\ s.completed_videos + s.in_progress_videos <= Cardinality(rows)
               /\ x.den = 100
               /\ s.total_videos = 0 => x.num = 0
               /\ s.total_videos > 0 =>
                      (2 * diff <= s.total_videos /\ -2 * diff <= s.total_videos)

\* the dashboard of a user with one completed and one partly watched video
\* of three active ones reports 1, 1 and 33.33
C22_Witness ==
    /\ pc[1] = "respond" /\ loc[1].kind = "dashboard" /\ loc[1].status = 200
    /\ loc[1].stats.total_videos = 3
    /\ loc[1].stats.completed_videos = 1
    /\ loc[1].stats.in_progress_videos = 1
    /\ loc[1].stats.overall_progress = [num |-> 3333, den |-> 100]

\* C23: an aggregate progress percentage of a user (the overall percentage of
\* the dashboard, the total progress of the home page) is a sum of completions
\* over the total, never an average of per-video percentages: a video that is
\* only partly watched contributes 0, so a user without a completed record
\* has an aggregate of 0.
C23_PartialVideoContributesNothing ==
    \A p \in Procs :
        (/\ pc[p] = "respond" /\ loc[p].status = 200
         /\ loc[p].user \in users
         /\ \A r \in progress : r.user = loc[p].user => ~r.completed)
        => /\ loc[p].kind = "dashboard" => loc[p].stats.overall_progress.num = 0
           /\ loc[p].kind = "home" => loc[p].user_total_progress.num = 0

\* C24: when two reports of the same user, each completing a different one of
\* the last two uncompleted active videos of a training, run concurrently,
\* then once both have answered exactly one certificate exists for (user,
\* training).  Videos 1 and 2 are the active videos of the training, no
\* catalog edit interferes and the two records are as the two reports saved
\* them (no third request has overwritten one).
C24_ConcurrentCompletionsOneCertificate ==
    (/\ \A p \in Procs :
            /\ pc[p] = "respond" /\ loc[p].kind = "report" /\ loc[p].status = 200
            /\ loc[p].user = "u1"
            /\ loc[p].data.completed = [kind |-> "bool", val |-> TRUE]
            /\ loc[p].instance \in progress
     /\ loc[1].video = 1 /\ loc[2].video = 2
     /\ ActiveVideos(1) = {1, 2}
     /\ admin_ops = 0)
    => Cardinality(CertsOf("u1", 1)) = 1

\* both reports counted after both saves: each found 2 of 2 completed, one
\* created the certificate and the other found it
C24_Witness ==
    /\ \A p \in Procs :
           /\ pc[p] = "respond" /\ loc[p].kind = "report" /\ loc[p].status = 200
           /\ loc[p].data.completed = [kind |-> "bool", val |-> TRUE]
           /\ loc[p].instance \in progress
           /\ loc[p].total_videos = 2 /\ loc[p].completed_videos = 2
    /\ loc[1].video = 1 /\ loc[2].video = 2
    /\ ActiveVideos(1) = {1, 2} /\ admin_ops = 0
    /\ loc[1].cert_created # loc[2].cert_created
    /\ Cardinality(CertsOf("u1", 1)) = 1

\* C25: every successful report after which the (user, video) record is
\* completed runs the certificate check of the video's training, also when
\* the record was completed before the report and the report carries no
\* completed flag; a report after which the record is not completed answers
\* without the check, and a certificate is only ever created by a report
\* whose record is completed.
C25_CheckRunsWheneverCompleted ==
    [][\A p \in Procs :
          /\ (pc[p] = "audit" /\ pc'[p] # "audit")
             => IF loc[p].instance.completed
                THEN pc'[p] = "count_total"
                ELSE pc'[p] = "respond" /\ loc'[p].status = 200 /\ certs' = certs
          /\ (pc[p] # pc'[p] /\ certs' # certs)
             => /\ loc[p].kind = "report" /\ loc[p].instance.completed
                /\ loc[p].instance \in progress
                /\ \A c \in certs' \ certs : c.user = loc[p].user
      ]_vars

\* a report without a completed flag for a record completed earlier has
\* reached the certificate check
C25_Witness ==
    /\ pc[1] = "count_total" /\ loc[1].kind = "report"
    /\ loc[1].data.completed.kind = "omitted"
    /\ ~loc[1].created /\ loc[1].instance.completed
    /\ loc[1].instance \in progress

\* C26: every successful progress report appends exactly one UserProgress
\* audit event, for the actor and the record, of kind COMPLETE if the record
\* is completed after the update and UPDATE otherwise (written by the step
\* after the save, no other step of the report writes one), and when the
\* report also writes the CREATE event of a certificate, that event follows
\* the UserProgress event in the log.
C26_OneProgressEventPerReport ==
    [][\A p \in Procs :
          LET fresh == SubSeq(audit', Len(audit) + 1, Len(audit'))
              n == Len(audit')
          IN  (loc[p].kind = "report" /\ pc[p] # pc'[p])
              => /\ IF pc[p] = "audit"
                    THEN fresh = <<[user |-> loc[p].user,
                                    action |-> IF loc[p].instance.completed
                                               THEN "COMPLETE" ELSE "UPDATE",
                                    model_name |-> "UserProgress",
                                    object_id |-> loc[p].instance.id]>>
                    ELSE \A i \in 1..Len(fresh) :
                             fresh[i].model_name # "UserProgress"
                 /\ (pc[p] = "save" /\ loc'[p].status # 400) => pc'[p] = "audit"
                 /\ (pc[p] = "cert_audit" /\ pc'[p] = "respond")
                    => /\ n >= 2
                       /\ audit'[n].action = "CREATE"
                       /\ audit'[n].model_name = "UserCertificate"
                       /\ audit'[n - 1] = [user |-> loc[p].user,
                                           action |-> "COMPLETE",
                                           model_name |-> "UserProgress",
                                           object_id |-> loc[p].instance.id]
      ]_vars

\* a report that completed the training has answered: the log ends with its
\* COMPLETE event followed by the CREATE event of the certificate
C26_Witness ==
    /\ pc[1] = "respond" /\ loc[1].kind = "report" /\ loc[1].status = 200
    /\ loc[1].cert_created
    /\ Len(audit) >= 2
    /\ audit[Len(audit)].model_name = "UserCertificate"
    /\ audit[Len(audit) - 1].action = "COMPLETE"
    /\ \E i \in 1..Len(audit) : audit[i].action = "UPDATE"

\* C27: no operation creates a progress record for a video that is inactive
\* at that moment: every record inserted refers to a video that is active when
\* it is inserted.
C27_NoRecordForInactiveVideo ==
    [][\A r \in progress' :
          (\A old \in progress : old.id # r.id) => is_active[r.video]
      ]_vars

C29_DashboardWithinTotal ==
    \A p \in Procs :
        (pc[p] = "respond" /\ loc[p].kind = "dashboard" /\ loc[p].status = 200)
        => LET s == loc[p].stats
           IN  /\ s.completed_videos <= s.total_videos
               /\ s.overall_progress.num >= 0
               /\ s.overall_progress.num <= 100 * s.overall_progress.den

\* C30: the retrieval of an active module, training or video through its
\* detail endpoint by an authenticated actor answers 200 and appends exactly
\* one VIEW audit event, for that object and actor; the retrieval of a missing
\* or inactive object answers 404 and appends no audit event.
C30_DetailViewEvent ==
    [][\A p \in Procs :
          LET l == loc'[p]
              found ==
                  CASE l.kind = "module" ->
                           l.target \in Modules /\ module_is_active[l.target]
                    [] l.kind = "training" ->
                           l.target \in Trainings /\ training_is_active[l.target]
                    [] OTHER -> l.video \in Videos /\ is_active[l.video]
              name == CASE l.kind = "module" -> "Module"
                        [] l.kind = "training" -> "Training"
                        [] OTHER -> "Video"
              id == IF l.kind = "detail" THEN l.video ELSE l.target
          IN  (/\ pc[p] = "idle" /\ pc'[p] = "respond"
               /\ l.kind \in {"module", "training", "detail"}
               /\ l.user \in users)
              => IF found
                 THEN /\ l.status = 200
                      /\ audit' = audit \o <<[user |-> l.user, action |-> "VIEW",
                                              model_name |-> name,
                                              object_id |-> id]>>
                 ELSE l.status = 404 /\ audit' = audit
      ]_vars

\* a module and then an active video were retrieved: the log ends with the
\* VIEW event of the video after the one of the module
C30_Witness ==
    /\ pc[1] = "respond" /\ loc[1].kind = "detail" /\ loc[1].status = 200
    /\ Len(audit) = 2
    /\ audit[1] = [user |-> "u1", action |-> "VIEW", model_name |-> "Module",
                   object_id |-> 1]
    /\ audit[2] = [user |-> "u1", action |-> "VIEW", model_name |-> "Video",
                   object_id |-> loc[1].video]

====
